---- MODULE Spec2Model ----
(***************************************************************************)
(* Client-side session state machine of the legal petition drafter.        *)
(*                                                                         *)
(* Two deployment variants are modelled side by side:                      *)
(*   "chat"       the Home component (src/unnamed/part_000): one free-form *)
(*                thread, thumbs up/down feedback with a comment editor;    *)
(*   "structured" the PetitionChatbot component (src/src/App.jsx).          *)
(* A behaviour runs one of the two; the variable `variant`, fixed by Init, *)
(* says which.                                                              *)
(*                                                                         *)
(* React state is one variable per useState cell.  A handler runs to its   *)
(* first await as one step (state updates of a discrete event are flushed  *)
(* before the next event is dispatched); what follows the await is the     *)
(* step that resolves the in-flight call.  In-flight calls are kept with   *)
(* the request body that was sent and the values their continuation        *)
(* captured.  Strings that are trimmed are sequences of characters.        *)
(* Timestamps (App.jsx) are not modelled: nothing reads them back.         *)
(***************************************************************************)
EXTENDS Integers, Sequences, FiniteSets, TLC

VARIABLES
    variant,              \* which component is mounted, "none" once React unmounted it
    \* ---- Home (chat variant) ----
    messages,             \* useState<Message[]>([])
    input,                \* useState('')
    loading,              \* useState(false)
    feedbackMode,         \* useState<string | null>(null)
    feedbackComment,      \* useState('')
    showFeedbackSuccess,  \* useState(false)
    petitionCalls,        \* in-flight POST /api/petition, in issue order
    feedbackCalls,        \* in-flight POST /api/feedback, in issue order
    timeouts,             \* pending setTimeout(..., 3000) callbacks
    \* ---- PetitionChatbot (structured variant) ----
    appMessages,          \* useState([])
    appInput,             \* useState('')
    appLoading,           \* useState(false)
    sessionId,            \* useState(null)
    chatCalls,            \* in-flight API.chat calls, in issue order
    caseData,             \* useState({case_type, jurisdiction, facts, ...})
    currentDraft,         \* useState(null)
    showDraft,            \* useState(false)
    generateCalls,        \* in-flight API.generatePetition calls
    finalizeCalls,        \* in-flight API.finalizePetition calls
    finalized,            \* backend: ids of the drafts it has finalized
    systemStatus,         \* useState(null)
    templates,            \* useState([])
    healthCalls,          \* in-flight API.healthCheck calls
    templateCalls,        \* in-flight API.getTemplates calls
    downloadCalls,        \* in-flight API.downloadDocx calls
    savedFile             \* a.download of the last link clicked; none at first

homeVars == <<messages, input, loading, feedbackMode, feedbackComment,
              showFeedbackSuccess, petitionCalls, feedbackCalls, timeouts>>
draftVars == <<caseData, currentDraft, showDraft, generateCalls, finalizeCalls, finalized>>
startupVars == <<systemStatus, templates, healthCalls, templateCalls, downloadCalls,
                 savedFile>>
appVars == <<appMessages, appInput, appLoading, sessionId, chatCalls, draftVars, startupVars>>
vars == <<variant, homeVars, appVars>>

----------------------------------------------------------------------------
(* Bounds of the model *)

\* exchanges (user turn + reply) per thread in the full specification
MaxExchanges == 2
\* exchanges per thread in the long-thread specification of the conversation
\* controller: the seventh submit sees 12 prior turns, more than the window
MaxLongExchanges == 7
\* feedback requests in flight plus success-notice timers pending
MaxFeedbackPending == 2
\* turns in the thread of the structured variant, an edited field of the
\* case form counting as two, beyond which the user starts no further action
MaxAppTurns == 4
\* DOCX downloads in flight, plus one once a file has been saved
MaxDownloads == 1

----------------------------------------------------------------------------
(* JavaScript values *)

Null == "<null>"
Undefined == "<undefined>"

\* null in a cell that otherwise holds an object (a record is only
\* comparable with a record)
NullObject == [null |-> TRUE]

\* !v for the values a string-or-absent field takes
Falsy(v) == v \in {Null, Undefined, ""}

\* obj.key, undefined when the object has no such key
Get(obj, key) == IF key \in DOMAIN obj THEN obj[key] ELSE Undefined

\* A text the user typed is the sequence of its UTF-16 code units, as a
\* JavaScript string is: <<9, 97>> is a tab followed by the letter a.
\* The code units String.prototype.trim strips are the WhiteSpace and
\* LineTerminator of ECMAScript: tab, line feed, vertical tab, form feed,
\* carriage return, space, no-break space, ogham space mark, U+2000 to
\* U+200A, line and paragraph separator, narrow no-break space, medium
\* mathematical space, ideographic space and byte order mark.
WhiteSpace ==
    {9, 10, 11, 12, 13, 32, 160, 5760} \cup (8192..8202)
        \cup {8232, 8233, 8239, 8287, 12288, 65279}

RECURSIVE TrimStart(_)
TrimStart(s) == IF s # <<>> /\ Head(s) \in WhiteSpace THEN TrimStart(Tail(s)) ELSE s

RECURSIVE TrimEnd(_)
TrimEnd(s) ==
    IF s # <<>> /\ s[Len(s)] \in WhiteSpace THEN TrimEnd(SubSeq(s, 1, Len(s) - 1)) ELSE s

\* String.prototype.trim
Trim(s) == TrimEnd(TrimStart(s))

\* slice(0, 10) in place of slice(-10): the first turns, not the last
SliceFromStart(arr, start) ==
    SubSeq(arr, 1, IF Len(arr) < 0 - start THEN Len(arr) ELSE 0 - start)

\* Array.prototype.slice(start) for start < 0: the last -start elements
SliceFromEnd(arr, start) ==
    LET from == IF Len(arr) + start < 0 THEN 0 ELSE Len(arr) + start
    IN  SubSeq(arr, from + 1, Len(arr))

----------------------------------------------------------------------------
(* Inputs *)

\* what the user may have typed in a message box: nothing, white space
\* only (a blank and a line break), or a text with a leading tab (the turn
\* keeps it, the guard trims it)
Texts == { <<>>, <<32, 10>>, <<9, 97>> }

\* what the user may have typed in the feedback comment box
Comments == { "", "too vague" }

\* how a fetch can end: the promise rejects, the status is not 2xx, the
\* body is not JSON, or a payload arrives
NetworkError == [kind |-> "network_error"]
HttpError == [kind |-> "http_error", data |-> [detail |-> "Service unavailable"]]
BadJson == [kind |-> "bad_json"]
Ok(data) == [kind |-> "ok", data |-> data]

PetitionPayloads ==
    { [petition |-> "PETITION A", conversation_id |-> "abc123",
       legal_context |-> <<"Section 42">>],
      [petition |-> "PETITION B", conversation_id |-> "def456",
       legal_context |-> <<>>],
      [petition |-> "PETITION C"] }

PetitionReplies == {NetworkError, HttpError, BadJson} \cup {Ok(d) : d \in PetitionPayloads}

LongPetitionReplies ==
    {HttpError,
     Ok([petition |-> "PETITION A", conversation_id |-> "abc123",
         legal_context |-> <<"Section 42">>]),
     Ok([petition |-> "PETITION C"])}

\* the answer of the same-origin proxy when it cannot reach the backend
BadGateway == [kind |-> "http_error", data |-> [error |-> "Failed to reach backend service"]]

\* the statuses for which `new Response(body, {status})` throws when given
\* a body, as the route gives it one (the text read, be it empty)
NullBodyStatus == {204, 205, 304}

\* an upstream answer whose status line arrived and whose body then failed
\* while it was read: upstreamResponse.text() rejects
BodyError == [kind |-> "body_error"]

\* an upstream answer with a null-body status and no body
NoContent == [kind |-> "ok", status |-> 204]
ResetContent == [kind |-> "ok", status |-> 205]
NotModified == [kind |-> "http_error", status |-> 304]

\* what the route is sent: a body that parses as JSON, as the page sends
\* it, or one that does not
JsonBody == [json |-> TRUE]
NotJsonBody == [json |-> FALSE]

\* app/api/feedback POST: the upstream status and body are passed through;
\* whatever throws inside the try becomes a 502: a request body that is
\* not JSON (no upstream call is made then), an upstream fetch that
\* rejects, an upstream body that fails while read, and an upstream status
\* the Response constructor refuses to pair with a body
ProxyPOST(request, upstream) ==
    IF \/ ~request.json
       \/ upstream.kind \in {"network_error", "body_error"}
       \/ "status" \in DOMAIN upstream /\ upstream.status \in NullBodyStatus
    THEN BadGateway
    ELSE upstream

\* how the backend can answer the proxy
FeedbackUpstream ==
    {NetworkError, BodyError, NoContent, ResetContent, NotModified, HttpError,
     Ok([status |-> "recorded"])}

\* what the browser's fetch of /api/feedback can end with: it reaches no
\* server at all, or the proxy answers the JSON body the page sent
FeedbackReplies ==
    {NetworkError} \cup {ProxyPOST(JsonBody, upstream) : upstream \in FeedbackUpstream}

----------------------------------------------------------------------------
(* Home: the conversation controller (chat variant) *)

\* messages.slice(-10): the literal of the trailing context window
HistoryWindow == 10

\* the fixed content of the turn appended when generation fails
ApologyText == "Sorry, there was an error generating your petition. Please try again."

\* the assistant turn without the conversation id of the response
AssistantMessageNoId(data) ==
    LET base == [role |-> "assistant", content |-> Get(data, "petition")]
    IN  IF "legal_context" \in DOMAIN data
        THEN base @@ [legalContext |-> data.legal_context]
        ELSE base

\* the turn built from a successful response; a key whose value the payload
\* lacks is an absent key (reads of it give undefined either way)
AssistantMessage(data) ==
    LET base == [role |-> "assistant", content |-> Get(data, "petition")]
        withId == IF "conversation_id" \in DOMAIN data
                  THEN base @@ [conversationId |-> data.conversation_id]
                  ELSE base
    IN  IF "legal_context" \in DOMAIN data
        THEN withId @@ [legalContext |-> data.legal_context]
        ELSE withId

ErrorMessage == [role |-> "assistant", content |-> ApologyText]

\* the sequence without its i-th element
RemoveAt(seq, i) == SubSeq(seq, 1, i - 1) \o SubSeq(seq, i + 1, Len(seq))

\* onChange of the message textarea, which is disabled while loading
ChangeInput(text) ==
    /\ ~loading
    /\ input' = text
    /\ UNCHANGED <<messages, loading, feedbackMode, feedbackComment,
                   showFeedbackSuccess, petitionCalls, feedbackCalls, timeouts>>

\* handleSubmit without busy gating: loading is not tested and the message
\* box keeps its text
HandleSubmitUngated ==
    IF Trim(input) = <<>>
    THEN UNCHANGED homeVars
    ELSE LET userMessage == [role |-> "user", content |-> input] IN
         /\ messages' = Append(messages, userMessage)
         /\ loading' = TRUE
         /\ petitionCalls' = Append(petitionCalls,
                [request |-> [message |-> userMessage.content,
                              conversation_history |->
                                  SliceFromEnd(messages, 0 - HistoryWindow)],
                 scope |-> [messages |-> messages, userMessage |-> userMessage]])
         /\ UNCHANGED <<input, feedbackMode, feedbackComment, showFeedbackSuccess,
                        feedbackCalls, timeouts>>

\* handleSubmit testing the message box for emptiness without trimming it
HandleSubmitNoTrim ==
    IF input = <<>> \/ loading
    THEN UNCHANGED homeVars
    ELSE LET userMessage == [role |-> "user", content |-> input] IN
         /\ messages' = Append(messages, userMessage)
         /\ input' = <<>>
         /\ loading' = TRUE
         /\ petitionCalls' = Append(petitionCalls,
                [request |-> [message |-> userMessage.content,
                              conversation_history |->
                                  SliceFromEnd(messages, 0 - HistoryWindow)],
                 scope |-> [messages |-> messages, userMessage |-> userMessage]])
         /\ UNCHANGED <<feedbackMode, feedbackComment, showFeedbackSuccess,
                        feedbackCalls, timeouts>>

\* handleSubmit up to its await: the guard, the optimistic user turn, the
\* request with the context window taken from the thread as rendered.  The
\* call in flight keeps the request body and the scope its continuation
\* closes over (the thread of the render that created the handler).
HandleSubmit ==
    IF Trim(input) = <<>> \/ loading
    THEN UNCHANGED homeVars
    ELSE LET userMessage == [role |-> "user", content |-> input] IN
         /\ messages' = Append(messages, userMessage)
         /\ input' = <<>>
         /\ loading' = TRUE
         /\ petitionCalls' = Append(petitionCalls,
                [request |-> [message |-> userMessage.content,
                              conversation_history |->
                                  SliceFromEnd(messages, 0 - HistoryWindow)],
                 scope |-> [messages |-> messages, userMessage |-> userMessage]])
         /\ UNCHANGED <<feedbackMode, feedbackComment, showFeedbackSuccess,
                        feedbackCalls, timeouts>>

\* the reply turn when response.ok is not tested: only a rejected fetch or
\* an unparsable body reaches the catch
ReplyMessageUnchecked(reply) ==
    IF reply.kind \in {"ok", "http_error"} THEN AssistantMessage(reply.data) ELSE ErrorMessage

\* the turn handleSubmit appends once its fetch has settled with `reply`
ReplyMessage(reply) ==
    IF reply.kind = "ok" THEN AssistantMessage(reply.data) ELSE ErrorMessage

\* the continuation appending to the thread it closed over,
\* setMessages([...messages, reply]), instead of the functional update
PetitionSettlesStale(i, reply) ==
    /\ i \in 1..Len(petitionCalls)
    /\ petitionCalls' = RemoveAt(petitionCalls, i)
    /\ messages' = Append(petitionCalls[i].scope.messages, ReplyMessage(reply))
    /\ loading' = FALSE
    /\ UNCHANGED <<input, feedbackMode, feedbackComment, showFeedbackSuccess,
                   feedbackCalls, timeouts>>

\* the continuation without the finally block: loading is cleared on the
\* success path only
PetitionSettlesNoFinally(i, reply) ==
    /\ i \in 1..Len(petitionCalls)
    /\ petitionCalls' = RemoveAt(petitionCalls, i)
    /\ messages' = Append(messages, ReplyMessage(reply))
    /\ loading' = (reply.kind # "ok" /\ loading)
    /\ UNCHANGED <<input, feedbackMode, feedbackComment, showFeedbackSuccess,
                   feedbackCalls, timeouts>>

\* handleSubmit after its await: try / catch / finally for the i-th call
PetitionSettles(i, reply) ==
    /\ i \in 1..Len(petitionCalls)
    /\ petitionCalls' = RemoveAt(petitionCalls, i)
    /\ messages' = Append(messages, ReplyMessage(reply))
    /\ loading' = FALSE
    /\ UNCHANGED <<input, feedbackMode, feedbackComment, showFeedbackSuccess,
                   feedbackCalls, timeouts>>

----------------------------------------------------------------------------
(* Home: the feedback controller *)

\* the feedback row is rendered for this turn
ShowsFeedbackControls(message) ==
    /\ message.role = "assistant"
    /\ ~Falsy(Get(message, "conversationId"))

\* the comment editor (textarea, Submit, Cancel) is rendered for this turn
ShowsEditor(message) ==
    /\ ShowsFeedbackControls(message)
    /\ feedbackMode = message.conversationId

\* the thumbs-up and thumbs-down buttons are rendered for this turn
ShowsThumbs(message) ==
    /\ ShowsFeedbackControls(message)
    /\ feedbackMode # message.conversationId

\* the body with the comment buffer as it is, without `|| null`
FeedbackBodyRawComment(rating, message) ==
    [conversation_id |-> message.conversationId,
     rating |-> rating,
     comment |-> feedbackComment,
     petition_text |-> message.content]

\* the body of the feedback request for `message`
FeedbackBody(rating, message) ==
    [conversation_id |-> message.conversationId,
     rating |-> rating,
     comment |-> IF Falsy(feedbackComment) THEN Null ELSE feedbackComment,
     petition_text |-> message.content]

\* handleFeedback up to its await
HandleFeedback(rating, message) ==
    IF Falsy(Get(message, "conversationId"))
    THEN UNCHANGED homeVars
    ELSE IF rating = "down" /\ Falsy(feedbackMode)
    THEN /\ feedbackMode' = message.conversationId
         /\ UNCHANGED <<messages, input, loading, feedbackComment,
                        showFeedbackSuccess, petitionCalls, feedbackCalls, timeouts>>
    ELSE /\ feedbackCalls' = Append(feedbackCalls, FeedbackBody(rating, message))
         /\ UNCHANGED <<messages, input, loading, feedbackMode, feedbackComment,
                        showFeedbackSuccess, petitionCalls, timeouts>>

\* handleFeedback showing the notice without starting the timer
FeedbackSettlesNoTimer(i, reply) ==
    /\ i \in 1..Len(feedbackCalls)
    /\ feedbackCalls' = RemoveAt(feedbackCalls, i)
    /\ IF reply.kind = "network_error"
       THEN UNCHANGED <<showFeedbackSuccess, timeouts, feedbackMode, feedbackComment>>
       ELSE /\ showFeedbackSuccess' = TRUE
            /\ timeouts' = timeouts
            /\ feedbackMode' = Null
            /\ feedbackComment' = ""
    /\ UNCHANGED <<messages, input, loading, petitionCalls>>

\* handleFeedback after its await, for the i-th call: fetch rejects only on
\* a transport error; any HTTP status fulfils it
FeedbackSettles(i, reply) ==
    /\ i \in 1..Len(feedbackCalls)
    /\ feedbackCalls' = RemoveAt(feedbackCalls, i)
    /\ IF reply.kind = "network_error"
       THEN UNCHANGED <<showFeedbackSuccess, timeouts, feedbackMode, feedbackComment>>
       ELSE /\ showFeedbackSuccess' = TRUE
            /\ timeouts' = timeouts + 1
            /\ feedbackMode' = Null
            /\ feedbackComment' = ""
    /\ UNCHANGED <<messages, input, loading, petitionCalls>>

\* a setTimeout callback of handleFeedback runs
TimeoutFires ==
    /\ timeouts > 0
    /\ timeouts' = timeouts - 1
    /\ showFeedbackSuccess' = FALSE
    /\ UNCHANGED <<messages, input, loading, feedbackMode, feedbackComment,
                   petitionCalls, feedbackCalls>>

\* onChange of the comment textarea of the open editor
ChangeComment(text) ==
    /\ \E i \in 1..Len(messages) : ShowsEditor(messages[i])
    /\ feedbackComment' = text
    /\ UNCHANGED <<messages, input, loading, feedbackMode, showFeedbackSuccess,
                   petitionCalls, feedbackCalls, timeouts>>

\* the Cancel button closing the editor without emptying the buffer
CancelFeedbackKeepsComment ==
    /\ \E i \in 1..Len(messages) : ShowsEditor(messages[i])
    /\ feedbackMode' = Null
    /\ UNCHANGED <<messages, input, loading, feedbackComment, showFeedbackSuccess,
                   petitionCalls, feedbackCalls, timeouts>>

\* the Cancel button of the open editor
CancelFeedback ==
    /\ \E i \in 1..Len(messages) : ShowsEditor(messages[i])
    /\ feedbackMode' = Null
    /\ feedbackComment' = ""
    /\ UNCHANGED <<messages, input, loading, showFeedbackSuccess,
                   petitionCalls, feedbackCalls, timeouts>>

\* thumbs rendered on every assistant turn, and a handler that does not
\* return when the turn has no conversation id
ClickThumbUnchecked(rating, i) ==
    /\ i \in 1..Len(messages)
    /\ messages[i].role = "assistant"
    /\ feedbackMode # Get(messages[i], "conversationId")
    /\ IF rating = "down" /\ Falsy(feedbackMode)
       THEN /\ feedbackMode' = Get(messages[i], "conversationId")
            /\ UNCHANGED <<messages, input, loading, feedbackComment,
                           showFeedbackSuccess, petitionCalls, feedbackCalls, timeouts>>
       ELSE /\ feedbackCalls' = Append(feedbackCalls,
                   [conversation_id |-> Get(messages[i], "conversationId"),
                    rating |-> rating,
                    comment |-> IF Falsy(feedbackComment) THEN Null ELSE feedbackComment,
                    petition_text |-> messages[i].content])
            /\ UNCHANGED <<messages, input, loading, feedbackMode, feedbackComment,
                           showFeedbackSuccess, petitionCalls, timeouts>>

\* a click on thumbs-up or thumbs-down of the i-th turn
ClickThumb(rating, i) ==
    /\ i \in 1..Len(messages)
    /\ ShowsThumbs(messages[i])
    /\ HandleFeedback(rating, messages[i])

\* a click on Submit in the editor shown with the i-th turn
ClickSubmitFeedback(i) ==
    /\ i \in 1..Len(messages)
    /\ ShowsEditor(messages[i])
    /\ HandleFeedback("down", messages[i])

----------------------------------------------------------------------------
(* PetitionChatbot: the chat of the structured variant *)

ChatFailedText == <<"Failed to get response. Please try again.">>

\* the initial value of the caseData cell
InitialCaseData ==
    [case_type |-> "civil_revision", jurisdiction |-> "Lahore High Court",
     facts |-> <<>>, parties |-> [petitioner |-> "", respondent |-> ""],
     prayers |-> "", annexures |-> <<>>]

\* An updater handed to a state setter throws while React renders: no
\* error boundary is mounted, so React unmounts the whole tree.  The cells
\* of the component are gone (they read as before their first write) and
\* the continuations of its outstanding calls write to nothing; a download
\* under way still saves its file, which the page does, not the component.
RenderThrows ==
    /\ variant' = "none"
    /\ appMessages' = <<>>
    /\ appInput' = <<>>
    /\ appLoading' = FALSE
    /\ sessionId' = Null
    /\ chatCalls' = <<>>
    /\ caseData' = InitialCaseData
    /\ currentDraft' = NullObject
    /\ showDraft' = FALSE
    /\ generateCalls' = <<>>
    /\ finalizeCalls' = <<>>
    /\ systemStatus' = NullObject
    /\ templates' = <<>>
    /\ healthCalls' = 0
    /\ templateCalls' = 0
    /\ UNCHANGED <<finalized, downloadCalls, savedFile>>

\* the payload of the i-th chat call is null and the call was sent with a
\* session id: `if (!sessionId)` skips the read of response.session_id, and
\* response.response is read by the updater, when React renders
ChatRenderThrows(i, reply) ==
    reply.kind = "bad_json" /\ ~Falsy(chatCalls[i].scope.sessionId)

ChatReplies ==
    {NetworkError, HttpError, BadJson,
     Ok([response |-> <<"ANSWER 1">>, session_id |-> "s1"]),
     Ok([response |-> <<"ANSWER 2">>, session_id |-> "s2"])}

\* onChange of the chat input, which is disabled while loading
ChangeAppInput(text) ==
    /\ ~appLoading
    /\ appInput' = text
    /\ UNCHANGED <<startupVars, appMessages, appLoading, sessionId, chatCalls, draftVars>>

\* handleSendMessage up to its await
HandleSendMessage ==
    IF Trim(appInput) = <<>> \/ appLoading
    THEN UNCHANGED appVars
    ELSE LET userMessage == [type |-> "user", content |-> appInput] IN
         /\ appMessages' = Append(appMessages, userMessage)
         /\ appInput' = <<>>
         /\ appLoading' = TRUE
         /\ chatCalls' = Append(chatCalls,
                [request |-> [message |-> appInput, session_id |-> sessionId],
                 scope |-> [messages |-> appMessages, sessionId |-> sessionId]])
         /\ UNCHANGED <<startupVars, sessionId, draftVars>>

\* handleSendMessage taking the session id of every successful response
ChatSettlesOverwrites(i, reply) ==
    /\ i \in 1..Len(chatCalls)
    /\ IF ChatRenderThrows(i, reply)
       THEN RenderThrows
       ELSE /\ chatCalls' = RemoveAt(chatCalls, i)
            /\ IF reply.kind = "ok"
               THEN /\ sessionId' = reply.data.session_id
                    /\ appMessages' = Append(appMessages,
                           [type |-> "assistant", content |-> reply.data.response])
               ELSE /\ appMessages' = Append(appMessages,
                           [type |-> "error", content |-> ChatFailedText])
                    /\ UNCHANGED sessionId
            /\ appLoading' = FALSE
            /\ UNCHANGED <<variant, startupVars, appInput, draftVars>>

\* handleSendMessage after its await, for the i-th call.  API.chat throws
\* on a transport error or a non-2xx status; a 2xx body that is not JSON
\* gives a null payload: reading response.session_id then throws into the
\* catch block, unless a session id is held and the read is skipped.
ChatSettles(i, reply) ==
    /\ i \in 1..Len(chatCalls)
    /\ IF ChatRenderThrows(i, reply)
       THEN RenderThrows
       ELSE /\ chatCalls' = RemoveAt(chatCalls, i)
            /\ IF reply.kind = "ok"
               THEN /\ sessionId' = IF Falsy(chatCalls[i].scope.sessionId)
                                    THEN reply.data.session_id
                                    ELSE sessionId
                    /\ appMessages' = Append(appMessages,
                           [type |-> "assistant", content |-> reply.data.response])
               ELSE /\ appMessages' = Append(appMessages,
                           [type |-> "error", content |-> ChatFailedText])
                    /\ UNCHANGED sessionId
            /\ appLoading' = FALSE
            /\ UNCHANGED <<variant, startupVars, appInput, draftVars>>

----------------------------------------------------------------------------
(* PetitionChatbot: the draft lifecycle of the structured variant *)

\* validation.overall_score >= 0.9 and >= 0.75, in hundredths
PassThreshold == 90
WarnThreshold == 75
\* (overall_score * 100).toFixed(0): scores are held as whole percentages
ScoreScale == 100

\* the colouring of the validation panel; the score is held in hundredths
ValidationTierStrict(score) ==
    IF score > PassThreshold THEN "pass"
    ELSE IF score > WarnThreshold THEN "warn"
    ELSE "fail"

ValidationTier(score) ==
    IF score >= PassThreshold THEN "pass"
    ELSE IF score >= WarnThreshold THEN "warn"
    ELSE "fail"

\* a draft as the backend returns it, with the fields the client reads
Draft(id, score) == [draft_id |-> id, validation |-> [overall_score |-> score]]

Drafts == { Draft("d1", 95), Draft("d2", 80) }

\* API.generatePetition and API.finalizePetition: how the fetch can end
GenerateReplies == {NetworkError, HttpError, BadJson} \cup {Ok(d) : d \in Drafts}

FinalizeReplies ==
    {NetworkError, HttpError, BadJson} \cup {Ok([draft_id |-> d.draft_id, status |-> "finalized"]) : d \in Drafts}

\* what prompt() returns: null on Cancel, else the text entered
ApproverNames == {Null, "", "A. Khan"}
ApproverIds == {Null, "", "LHC-1"}

\* the texts of the system turns, as the sequence of their literal and
\* interpolated parts
GeneratingText == <<"Generating petition... This may take 30-60 seconds.">>
\* the text opens with the check mark U+2713, written here by its
\* JavaScript escape because a string of this module holds ASCII only
GeneratedText ==
    <<"\\u2713 Petition draft generated successfully! Review the draft and validation results below.">>

\* addSystemMessage(content, type = 'system')
SystemMessage(content, type) == [type |-> type, content |-> content]

\* error.message of what an API method throws: the detail of the error
\* body, the method's default text, or the browser's text for a fetch
\* that was rejected
ThrownMessage(reply, default) ==
    IF reply.kind = "http_error"
    THEN IF Falsy(Get(reply.data, "detail")) THEN default ELSE reply.data.detail
    ELSE "Failed to fetch"

\* onChange of the facts textarea
ChangeFacts(text) ==
    /\ caseData' = [caseData EXCEPT !.facts = text]
    /\ UNCHANGED <<startupVars, appMessages, appInput, appLoading, sessionId, chatCalls,
                   currentDraft, showDraft, generateCalls, finalizeCalls, finalized>>

\* the options of the case type and jurisdiction selects the user picks
\* from, and what the user may have typed in the name and relief boxes
CaseTypes == {"civil_revision", "constitutional_writ"}
Jurisdictions == {"Lahore High Court", "Sindh High Court"}
PartyNames == {"", "Ali"}
PrayerTexts == {"", "Stay order"}

\* what the handlers of the case form other than facts leave alone
FormRest ==
    <<startupVars, appMessages, appInput, appLoading, sessionId, chatCalls,
      currentDraft, showDraft, generateCalls, finalizeCalls, finalized>>

\* onChange of the case type select
ChangeCaseType(value) ==
    /\ caseData' = [caseData EXCEPT !.case_type = value]
    /\ UNCHANGED FormRest

\* onChange of the jurisdiction select
ChangeJurisdiction(value) ==
    /\ caseData' = [caseData EXCEPT !.jurisdiction = value]
    /\ UNCHANGED FormRest

\* onChange of the petitioner name input
ChangePetitioner(value) ==
    /\ caseData' = [caseData EXCEPT !.parties.petitioner = value]
    /\ UNCHANGED FormRest

\* onChange of the respondent name input
ChangeRespondent(value) ==
    /\ caseData' = [caseData EXCEPT !.parties.respondent = value]
    /\ UNCHANGED FormRest

\* onChange of the relief sought textarea
ChangePrayers(value) ==
    /\ caseData' = [caseData EXCEPT !.prayers = value]
    /\ UNCHANGED FormRest

\* handleGeneratePetition up to its await
HandleGeneratePetition ==
    IF Trim(caseData.facts) = <<>>
    THEN UNCHANGED appVars
    ELSE /\ appLoading' = TRUE
         /\ appMessages' = Append(appMessages, SystemMessage(GeneratingText, "system"))
         /\ generateCalls' = Append(generateCalls,
                [request |-> caseData, scope |-> [caseData |-> caseData]])
         /\ UNCHANGED <<startupVars, appInput, sessionId, chatCalls, caseData, currentDraft,
                        showDraft, finalizeCalls, finalized>>

\* the Generate Petition button with neither the button nor the handler
\* testing the facts
ClickGenerateUnchecked ==
    /\ ~appLoading
    /\ appLoading' = TRUE
    /\ appMessages' = Append(appMessages, SystemMessage(GeneratingText, "system"))
    /\ generateCalls' = Append(generateCalls,
           [request |-> caseData, scope |-> [caseData |-> caseData]])
    /\ UNCHANGED <<startupVars, appInput, sessionId, chatCalls, caseData, currentDraft,
                   showDraft, finalizeCalls, finalized>>

\* the Generate Petition button enabled while a request is outstanding
ClickGenerateWhileLoading ==
    /\ Trim(caseData.facts) # <<>>
    /\ HandleGeneratePetition

\* a click on the Generate Petition button, which is disabled while loading
\* or while the facts are blank
ClickGenerate ==
    /\ ~(appLoading \/ Trim(caseData.facts) = <<>>)
    /\ HandleGeneratePetition

\* handleGeneratePetition after its await, for the i-th call.
\* API.generatePetition throws on a rejected fetch or a non-2xx status; a
\* 2xx body that is not JSON is returned as null.
GenerateSettles(i, reply) ==
    /\ i \in 1..Len(generateCalls)
    /\ generateCalls' = RemoveAt(generateCalls, i)
    /\ IF reply.kind \in {"ok", "bad_json"}
       THEN /\ currentDraft' = IF reply.kind = "ok" THEN reply.data ELSE NullObject
            /\ showDraft' = TRUE
            /\ appMessages' = Append(appMessages, SystemMessage(GeneratedText, "system"))
       ELSE /\ appMessages' = Append(appMessages,
                   SystemMessage(<<"Error generating petition: ",
                                   ThrownMessage(reply, "Failed to generate petition")>>,
                                 "error"))
            /\ UNCHANGED <<currentDraft, showDraft>>
    /\ appLoading' = FALSE
    /\ UNCHANGED <<startupVars, appInput, sessionId, chatCalls, caseData, finalizeCalls, finalized>>

\* handleFinalize without its test of the approver details
HandleFinalizeUnchecked(approverName, approverId) ==
    IF currentDraft = NullObject
    THEN UNCHANGED appVars
    ELSE /\ appLoading' = TRUE
         /\ finalizeCalls' = Append(finalizeCalls,
                [request |-> [draft_id |-> currentDraft.draft_id,
                              approver_name |-> approverName,
                              approver_id |-> approverId,
                              notes |-> "Approved for filing"],
                 scope |-> [approverName |-> approverName, approverId |-> approverId]])
         /\ UNCHANGED <<startupVars, appMessages, appInput, sessionId, chatCalls, caseData,
                        currentDraft, showDraft, generateCalls, finalized>>

\* handleFinalize up to its await, with what the two prompts returned
HandleFinalize(approverName, approverId) ==
    IF currentDraft = NullObject
    THEN UNCHANGED appVars
    ELSE IF Falsy(approverName) \/ Falsy(approverId)
    THEN UNCHANGED appVars
    ELSE /\ appLoading' = TRUE
         /\ finalizeCalls' = Append(finalizeCalls,
                [request |-> [draft_id |-> currentDraft.draft_id,
                              approver_name |-> approverName,
                              approver_id |-> approverId,
                              notes |-> "Approved for filing"],
                 scope |-> [approverName |-> approverName, approverId |-> approverId]])
         /\ UNCHANGED <<startupVars, appMessages, appInput, sessionId, chatCalls, caseData,
                        currentDraft, showDraft, generateCalls, finalized>>

\* the draft preview, with its Finalize and Download buttons, is rendered
ShowsDraftPreview == showDraft /\ currentDraft # NullObject

\* the colouring of the validation panel: green (pass), yellow (warn) or
\* red (fail); none while the preview is not rendered
ValidationPanelTier ==
    IF ShowsDraftPreview
    THEN ValidationTier(currentDraft.validation.overall_score)
    ELSE "none"

\* a click on Finalize & Sign, which is disabled while loading
ClickFinalize(approverName, approverId) ==
    /\ ShowsDraftPreview
    /\ ~appLoading
    /\ HandleFinalize(approverName, approverId)

\* handleFinalize after its await, for the i-th call.  A 2xx answer means
\* the backend has finalized the draft of the request; when its body is
\* not JSON the result is null and reading result.draft_id throws into
\* the catch, which only alerts.
FinalizeSettles(i, reply) ==
    /\ i \in 1..Len(finalizeCalls)
    /\ finalizeCalls' = RemoveAt(finalizeCalls, i)
    /\ IF reply.kind = "ok"
       THEN /\ appMessages' = Append(appMessages,
                   SystemMessage(<<"Petition finalized by ",
                                   finalizeCalls[i].scope.approverName,
                                   " (",
                                   finalizeCalls[i].scope.approverId,
                                   ")">>, "system"))
            /\ finalized' = finalized \cup {finalizeCalls[i].request.draft_id}
       ELSE /\ finalized' = IF reply.kind = "bad_json"
                           THEN finalized \cup {finalizeCalls[i].request.draft_id}
                           ELSE finalized
            /\ UNCHANGED appMessages
    /\ appLoading' = FALSE
    /\ UNCHANGED <<startupVars, appInput, sessionId, chatCalls, caseData, currentDraft,
                   showDraft, generateCalls>>

----------------------------------------------------------------------------
(* PetitionChatbot: startup calls and DOCX export *)

\* API.healthCheck: how the fetch and response.json() can end; the status
\* of the response is not looked at
HealthReplies ==
    {NetworkError, BadJson, HttpError,
     Ok([status |-> "healthy", openai |-> "connected", pinecone |-> "connected"]),
     Ok([status |-> "degraded", openai |-> "disconnected", pinecone |-> "connected"])}

\* API.getTemplates: throws on a rejected fetch or a non-2xx status
TemplateReplies ==
    {NetworkError, HttpError, BadJson,
     Ok([templates |-> <<"civil_revision", "writ_petition">>]),
     Ok([count |-> 0])}

\* API.downloadDocx: throws on a rejected fetch or a non-2xx status
DownloadReplies == {NetworkError, HttpError, Ok([blob |-> "docx"])}

HealthyText == <<"System initialized successfully! Ready to draft petitions.">>
UnhealthyText == <<"Warning: System health check failed. Some features may not work.">>
UnreachableText ==
    <<"Error: Cannot connect to backend server. Please ensure the server is running.">>

\* checkSystemHealth swallowing what it catches
CheckSystemHealthSettlesSilent(reply) ==
    /\ healthCalls > 0
    /\ healthCalls' = healthCalls - 1
    /\ IF reply.kind \in {"ok", "http_error"}
       THEN /\ systemStatus' = reply.data
            /\ appMessages' = Append(appMessages,
                   IF Get(reply.data, "status") = "healthy"
                   THEN SystemMessage(HealthyText, "system")
                   ELSE SystemMessage(UnhealthyText, "warning"))
       ELSE UNCHANGED <<systemStatus, appMessages>>
    /\ UNCHANGED <<appInput, appLoading, sessionId, chatCalls, draftVars,
                   templates, templateCalls, downloadCalls, savedFile>>

\* checkSystemHealth after its await: the call started by the mount effect
\* resolves.  Any body that parses as JSON is the result, whatever the
\* status of the response; a rejected fetch or a body that does not parse
\* is caught.
CheckSystemHealthSettles(reply) ==
    /\ healthCalls > 0
    /\ healthCalls' = healthCalls - 1
    /\ IF reply.kind \in {"ok", "http_error"}
       THEN /\ systemStatus' = reply.data
            /\ appMessages' = Append(appMessages,
                   IF Get(reply.data, "status") = "healthy"
                   THEN SystemMessage(HealthyText, "system")
                   ELSE SystemMessage(UnhealthyText, "warning"))
       ELSE /\ appMessages' = Append(appMessages, SystemMessage(UnreachableText, "error"))
            /\ UNCHANGED systemStatus
    /\ UNCHANGED <<appInput, appLoading, sessionId, chatCalls, draftVars,
                   templates, templateCalls, downloadCalls, savedFile>>

\* loadTemplates telling the user of a failure
LoadTemplatesSettlesLoud(reply) ==
    /\ templateCalls > 0
    /\ templateCalls' = templateCalls - 1
    /\ IF reply.kind = "ok"
       THEN /\ templates' = IF "templates" \in DOMAIN reply.data
                            THEN reply.data.templates
                            ELSE <<>>
            /\ UNCHANGED appMessages
       ELSE /\ appMessages' = Append(appMessages,
                   SystemMessage(<<"Error loading templates">>, "error"))
            /\ UNCHANGED templates
    /\ UNCHANGED <<appInput, appLoading, sessionId, chatCalls, draftVars,
                   systemStatus, healthCalls, downloadCalls, savedFile>>

\* loadTemplates after its await: data.templates || [] on success, a
\* console.error otherwise
LoadTemplatesSettles(reply) ==
    /\ templateCalls > 0
    /\ templateCalls' = templateCalls - 1
    /\ templates' = IF reply.kind = "ok"
                    THEN IF "templates" \in DOMAIN reply.data
                         THEN reply.data.templates
                         ELSE <<>>
                    ELSE templates
    /\ UNCHANGED <<appMessages, appInput, appLoading, sessionId, chatCalls, draftVars,
                   systemStatus, healthCalls, downloadCalls, savedFile>>

\* handleDownloadDocx up to its await
HandleDownloadDocx ==
    IF currentDraft = NullObject
    THEN UNCHANGED appVars
    ELSE /\ downloadCalls' = Append(downloadCalls,
                [request |-> [draft_id |-> currentDraft.draft_id],
                 scope |-> [currentDraft |-> currentDraft]])
         /\ UNCHANGED <<appMessages, appInput, appLoading, sessionId, chatCalls, draftVars,
                        systemStatus, templates, healthCalls, templateCalls, savedFile>>

\* a click on Download DOCX, which is never disabled
ClickDownload ==
    /\ ShowsDraftPreview
    /\ HandleDownloadDocx

\* `petition_${draftId}.docx`, as the sequence of its parts
FileName(draftId) == <<"petition_", draftId, ".docx">>

\* handleDownloadDocx naming the file after the draft held when the
\* download resolves
DownloadSettlesHeldDraft(i, reply) ==
    /\ i \in 1..Len(downloadCalls)
    /\ downloadCalls' = RemoveAt(downloadCalls, i)
    /\ savedFile' = IF reply.kind = "ok"
                    THEN FileName(Get(currentDraft, "draft_id"))
                    ELSE savedFile
    /\ UNCHANGED <<appMessages, appInput, appLoading, sessionId, chatCalls, draftVars,
                   systemStatus, templates, healthCalls, templateCalls>>

\* handleDownloadDocx after its await, for the i-th call: the file is
\* saved through a temporary link named after the draft the handler
\* captured, or an alert shows the error; no state cell is written
DownloadSettles(i, reply) ==
    /\ i \in 1..Len(downloadCalls)
    /\ downloadCalls' = RemoveAt(downloadCalls, i)
    /\ savedFile' = IF reply.kind = "ok"
                    THEN FileName(downloadCalls[i].scope.currentDraft.draft_id)
                    ELSE savedFile
    /\ UNCHANGED <<appMessages, appInput, appLoading, sessionId, chatCalls, draftVars,
                   systemStatus, templates, healthCalls, templateCalls>>

----------------------------------------------------------------------------
(* Specifications *)

Init ==
    /\ variant \in {"chat", "structured"}
    /\ messages = <<>>
    /\ input = <<>>
    /\ loading = FALSE
    /\ feedbackMode = Null
    /\ feedbackComment = ""
    /\ showFeedbackSuccess = FALSE
    /\ petitionCalls = <<>>
    /\ feedbackCalls = <<>>
    /\ timeouts = 0
    /\ appMessages = <<>>
    /\ appInput = <<>>
    /\ appLoading = FALSE
    /\ sessionId = Null
    /\ chatCalls = <<>>
    /\ caseData = InitialCaseData
    /\ currentDraft = NullObject
    /\ showDraft = FALSE
    /\ generateCalls = <<>>
    /\ finalizeCalls = <<>>
    /\ finalized = {}
    /\ systemStatus = NullObject
    /\ templates = <<>>
    /\ healthCalls = IF variant = "structured" THEN 1 ELSE 0
    /\ templateCalls = IF variant = "structured" THEN 1 ELSE 0
    /\ downloadCalls = <<>>
    /\ savedFile = <<>>

\* room for one more feedback request and its success-notice timer
FeedbackRoom == Len(feedbackCalls) + timeouts < MaxFeedbackPending

\* a step of the mounted component leaves the other component alone
InHome(step) == variant = "chat" /\ step /\ UNCHANGED <<variant, appVars>>
InApp(step) == variant = "structured" /\ step /\ UNCHANGED <<variant, homeVars>>
\* a step that may end with React unmounting the component
InTree(step) == variant = "structured" /\ step /\ UNCHANGED homeVars
\* a step of the page, which goes on after the component was unmounted
InPage(step) ==
    variant \in {"structured", "none"} /\ step /\ UNCHANGED <<variant, homeVars>>

HomeNext ==
    \/ \E text \in Texts : InHome(ChangeInput(text))
    \/ InHome(Len(messages) < 2 * MaxExchanges /\ HandleSubmit)
    \/ \E i \in 1..Len(petitionCalls), reply \in PetitionReplies :
          InHome(PetitionSettles(i, reply))
    \/ \E i \in 1..Len(messages), rating \in {"up", "down"} :
          InHome(FeedbackRoom /\ ClickThumb(rating, i))
    \/ \E i \in 1..Len(messages) : InHome(FeedbackRoom /\ ClickSubmitFeedback(i))
    \/ \E text \in Comments : InHome(ChangeComment(text))
    \/ InHome(CancelFeedback)
    \/ \E i \in 1..Len(feedbackCalls), reply \in FeedbackReplies :
          InHome(FeedbackSettles(i, reply))
    \/ InHome(TimeoutFires)

\* what is typed into the message box of the structured variant, empty at
\* first; the box is a single-line input, which holds no line feed: a
\* space only, or text with a tab before it
InputTexts == { <<32>>, <<9, 97>> }

\* what is typed into the facts box, a textarea, empty at first: a space and
\* a line feed only, or text with a tab before it
FactsTexts == { <<32, 10>>, <<9, 97>> }

\* room for one more DOCX download
DownloadRoom ==
    Len(downloadCalls) + (IF savedFile = <<>> THEN 0 ELSE 1) < MaxDownloads

\* the fields of the case form, facts aside, that differ from their
\* initial value
FormEdits ==
    Cardinality({f \in {"case_type", "jurisdiction", "prayers"} :
                    caseData[f] # InitialCaseData[f]})
    + Cardinality({f \in {"petitioner", "respondent"} :
                      caseData.parties[f] # InitialCaseData.parties[f]})

\* room in the session of the structured variant for one more action of
\* the user: the turns of the thread and the edited fields of the form
\* count against the same bound, an edited field as much as an exchange
\* (two turns)
AppRoom == Len(appMessages) + 2 * FormEdits < MaxAppTurns

\* room for the edit of one more field of the form
FormRoom == Len(appMessages) + 2 * (FormEdits + 1) < MaxAppTurns

AppNext ==
    \/ \E text \in InputTexts : InApp(AppRoom /\ ChangeAppInput(text))
    \/ InApp(AppRoom /\ HandleSendMessage)
    \/ \E i \in 1..Len(chatCalls), reply \in ChatReplies : InTree(ChatSettles(i, reply))
    \/ \E text \in FactsTexts : InApp(AppRoom /\ ChangeFacts(text))
    \/ \E value \in CaseTypes : InApp(FormRoom /\ ChangeCaseType(value))
    \/ \E value \in Jurisdictions : InApp(FormRoom /\ ChangeJurisdiction(value))
    \/ \E value \in PartyNames : InApp(FormRoom /\ ChangePetitioner(value))
    \/ \E value \in PartyNames : InApp(FormRoom /\ ChangeRespondent(value))
    \/ \E value \in PrayerTexts : InApp(FormRoom /\ ChangePrayers(value))
    \/ InApp(AppRoom /\ ClickGenerate)
    \/ \E i \in 1..Len(generateCalls), reply \in GenerateReplies :
          InApp(GenerateSettles(i, reply))
    \/ \E name \in ApproverNames, id \in ApproverIds :
          InApp(AppRoom /\ ClickFinalize(name, id))
    \/ \E i \in 1..Len(finalizeCalls), reply \in FinalizeReplies :
          InApp(FinalizeSettles(i, reply))
    \/ \E reply \in HealthReplies : InApp(CheckSystemHealthSettles(reply))
    \/ \E reply \in TemplateReplies : InApp(LoadTemplatesSettles(reply))
    \/ InApp(AppRoom /\ DownloadRoom /\ ClickDownload)
    \/ \E i \in 1..Len(downloadCalls), reply \in DownloadReplies :
          InPage(DownloadSettles(i, reply))

Next == HomeNext \/ AppNext

Spec == Init /\ [][Next]_vars

\* Every fetch settles: the transport fulfils or rejects each promise, and
\* the event loop then runs the continuation of the call.
PetitionSettlesSome ==
    \E i \in 1..Len(petitionCalls), reply \in PetitionReplies :
        InHome(PetitionSettles(i, reply))

\* The Home component mounted (the chat variant), and the PetitionChatbot
\* component mounted (the structured variant).
LongInit == Init /\ variant = "chat"

TierInit == Init /\ variant = "structured"

HomeSpec == LongInit /\ [][HomeNext]_vars

AppSpec == TierInit /\ [][AppNext]_vars

LiveSpec == LongInit /\ [][HomeNext]_vars /\ WF_vars(PetitionSettlesSome)

\* Every timer started by setTimeout expires and its callback runs.
TimerSpec == LongInit /\ [][HomeNext]_vars /\ WF_vars(InHome(TimeoutFires))

\* The conversation controller of the chat variant on long threads: three
\* replies, no feedback clicks.

LongNext ==
    \/ \E text \in Texts : InHome(ChangeInput(text))
    \/ InHome(Len(messages) < 2 * MaxLongExchanges /\ HandleSubmit)
    \/ \E i \in 1..Len(petitionCalls), reply \in LongPetitionReplies :
          InHome(PetitionSettles(i, reply))

LongSpec == LongInit /\ [][LongNext]_vars

\* The structured variant generating drafts whose overall score ranges
\* over every whole percentage.
Scores == 0..ScoreScale

TierNext ==
    \/ \E text \in FactsTexts : InApp(AppRoom /\ ChangeFacts(text))
    \/ InApp(AppRoom /\ ClickGenerate)
    \/ \E i \in 1..Len(generateCalls), score \in Scores :
          InApp(GenerateSettles(i, Ok(Draft("d1", score))))

TierSpec == TierInit /\ [][TierNext]_vars

----------------------------------------------------------------------------
(* Properties of the conversation controller *)

\* the user turn a call in flight was issued for
UserTurnOf(call) == [role |-> "user", content |-> call.request.message]

\* the thread as it must stand once `call` has settled with `reply`
ThreadAfter(call, reply) == call.scope.messages \o <<UserTurnOf(call), reply>>

\* C1: while a generation request is outstanding no step issues a further
\* request, the thread changes only by the step that settles the request, a
\* submit attempt changes nothing, and so at most one request is in flight.
C1_SingleFlight ==
    /\ [](Len(petitionCalls) <= 1)
    /\ [][petitionCalls # <<>> =>
            /\ Len(petitionCalls') <= Len(petitionCalls)
            /\ (Len(petitionCalls') = Len(petitionCalls) => messages' = messages)
            /\ (HandleSubmit => UNCHANGED homeVars)]_vars

\* a second accepted submit is waiting for its reply
C1_Witness ==
    /\ variant = "chat"
    /\ Len(petitionCalls) = 1
    /\ loading
    /\ Len(messages) = 3

\* C2: with an empty or blank-only message box, no step appends a user turn
\* or issues a chat request (the thread grows only by a request being
\* settled, by the system turn of a generation or by the turn of the
\* startup health check), and a submit leaves every
\* state cell (thread, busy flag, input buffer) as it was; in both variants.
C2_BlankSubmitIsNoOp ==
    [][ /\ Trim(input) = <<>> =>
            /\ Len(petitionCalls') <= Len(petitionCalls)
            /\ (messages' # messages => Len(petitionCalls') < Len(petitionCalls))
            /\ (HandleSubmit => UNCHANGED homeVars)
        /\ Trim(appInput) = <<>> =>
            /\ Len(chatCalls') <= Len(chatCalls)
            /\ (appMessages' # appMessages =>
                    \/ Len(chatCalls') < Len(chatCalls)
                    \/ Len(generateCalls') # Len(generateCalls)
                    \/ Len(finalizeCalls') < Len(finalizeCalls)
                    \/ healthCalls' < healthCalls)
            /\ (HandleSendMessage => UNCHANGED appVars) ]_vars

\* the structured variant after a first exchange, its message box holding
\* one space, idle, so that a submit is refused by the trim test alone (the
\* chat variant reaches the same state with a space and a line feed in its
\* textarea)
C2_Witness ==
    /\ variant = "structured"
    /\ appInput = <<32>>
    /\ ~appLoading
    /\ chatCalls = <<>>
    /\ Len(appMessages) = 2
    /\ appMessages[1].type = "user"
    /\ appMessages[2].type = "assistant"

\* C3: an accepted submit appends the user turn with the submitted text and
\* issues the request for it; when that request succeeds, the thread is the
\* thread from before the submit, then that user turn, then the assistant
\* turn built from the response.
C3_SuccessAddsTwoTurns ==
    [][ /\ Len(petitionCalls') > Len(petitionCalls) =>
            LET call == petitionCalls'[Len(petitionCalls')] IN
            /\ messages' = Append(messages, [role |-> "user", content |-> input])
            /\ call.request.message = input
            /\ call.scope.messages = messages
        /\ \A i \in 1..Len(petitionCalls), data \in PetitionPayloads :
            PetitionSettles(i, Ok(data)) =>
                /\ messages' = ThreadAfter(petitionCalls[i], AssistantMessage(data))
                /\ Len(messages') = Len(petitionCalls[i].scope.messages) + 2 ]_vars

\* a second exchange has succeeded
C3_Witness ==
    /\ variant = "chat"
    /\ Len(messages) = 4
    /\ petitionCalls = <<>>
    /\ messages[3].role = "user"
    /\ messages[4].content = "PETITION B"

\* C4: when the request of an accepted submit fails, the thread is the
\* thread from before the submit, then the user turn, then an assistant
\* turn with the fixed apology and neither conversationId nor legalContext;
\* the failure is absorbed by the step (loading is cleared, the call is gone).
C4_FailureAddsErrorTurn ==
    [][\A i \in 1..Len(petitionCalls), reply \in {NetworkError, HttpError, BadJson} :
          PetitionSettles(i, reply) =>
              LET last == messages'[Len(messages')] IN
              /\ Len(messages') = Len(petitionCalls[i].scope.messages) + 2
              /\ SubSeq(messages', 1, Len(messages') - 1)
                   = Append(petitionCalls[i].scope.messages, UserTurnOf(petitionCalls[i]))
              /\ DOMAIN last = {"role", "content"}
              /\ last.role = "assistant"
              /\ last.content
                   = "Sorry, there was an error generating your petition. Please try again."
              /\ Get(last, "conversationId") = Undefined
              /\ ~loading'
              /\ petitionCalls' = RemoveAt(petitionCalls, i)]_vars

\* a failed exchange after a successful one
C4_Witness ==
    /\ variant = "chat"
    /\ Len(messages) = 4
    /\ petitionCalls = <<>>
    /\ ~loading
    /\ ShowsFeedbackControls(messages[2])
    /\ messages[4] = ErrorMessage

\* C5: the busy flag is set by an accepted submit and cleared by the step
\* that settles its request, so it is true exactly while one request is in
\* flight; given that every request settles, it always becomes false again.
C5_BusyWhileInFlight ==
    /\ [](loading <=> Len(petitionCalls) = 1)
    /\ [][ /\ (~loading /\ loading') => Len(petitionCalls') = Len(petitionCalls) + 1
           /\ (loading /\ ~loading') => Len(petitionCalls') = Len(petitionCalls) - 1
           /\ \A i \in 1..Len(petitionCalls), reply \in PetitionReplies :
                  PetitionSettles(i, reply) => ~loading' ]_vars
    /\ (loading ~> ~loading)

\* the busy flag is clear again after a failed exchange
C5_Witness ==
    /\ variant = "chat"
    /\ ~loading
    /\ Len(messages) = 2
    /\ messages[2] = ErrorMessage

\* C6: the context sent with a request is the last min(10, n) of the n turns
\* that were in the thread before the user turn was appended, in thread
\* order, whatever their roles; the user text travels as the message.
C6_ContextWindow ==
    \A i \in 1..Len(petitionCalls) :
        LET call == petitionCalls[i]
            prior == SubSeq(messages, 1, Len(messages) - 1)
            n == Len(prior)
            sent == call.request.conversation_history
            k == IF n < 10 THEN n ELSE 10
        IN  /\ messages[Len(messages)] = [role |-> "user", content |-> call.request.message]
            /\ Len(sent) = k
            /\ \A j \in 1..k : sent[j] = prior[n - k + j]

\* a request is in flight whose submit saw 12 prior turns of both roles
C6_Witness ==
    /\ Len(petitionCalls) = 1
    /\ Len(messages) = 13
    /\ Len(petitionCalls[1].request.conversation_history) = 10
    /\ petitionCalls[1].request.conversation_history[1].role = "user"
    /\ petitionCalls[1].request.conversation_history[10].role = "assistant"

\* C7: the assistant turn appended on success carries the conversation id
\* and the legal references of that response; after one successful exchange
\* from an empty thread the thread has two turns, the second carrying both.
C7_CarriesSessionRef ==
    [][\A i \in 1..Len(petitionCalls), data \in PetitionPayloads :
          PetitionSettles(i, Ok(data)) =>
              LET last == messages'[Len(messages')] IN
              /\ last.role = "assistant"
              /\ last.content = data.petition
              /\ Get(last, "conversationId") = Get(data, "conversation_id")
              /\ ("legalContext" \in DOMAIN last) = ("legal_context" \in DOMAIN data)
              /\ "legal_context" \in DOMAIN data => last.legalContext = data.legal_context
              /\ petitionCalls[i].scope.messages = <<>> => Len(messages') = 2]_vars

\* the end-to-end scenario: one exchange, an id and one legal reference
C7_Witness ==
    /\ variant = "chat"
    /\ Len(messages) = 2
    /\ messages[2].role = "assistant"
    /\ Get(messages[2], "conversationId") = "abc123"
    /\ "legalContext" \in DOMAIN messages[2]
    /\ Len(messages[2].legalContext) = 1

----------------------------------------------------------------------------
(* Properties of the feedback controller *)

\* C8: a thumbs-down on a turn whose editor is not shown opens the editor
\* for that turn and sends no feedback request, in every reachable state.
C8_DownOpensEditor ==
    [][\A i \in 1..Len(messages) :
          ClickThumb("down", i) =>
              /\ feedbackMode' = messages[i].conversationId
              /\ feedbackCalls' = feedbackCalls]_vars

\* C9: a down rating on a turn whose editor is shown sends exactly one
\* feedback request, with that turn's conversation id, rating down, the
\* comment buffer (null when empty) and the turn's content; when a down
\* request succeeds the editor is closed and the comment buffer empty.
C9_SubmitSendsOnce ==
    [][ /\ \A i \in 1..Len(messages) :
            ClickSubmitFeedback(i) =>
                /\ Len(feedbackCalls') = Len(feedbackCalls) + 1
                /\ SubSeq(feedbackCalls', 1, Len(feedbackCalls)) = feedbackCalls
                /\ feedbackCalls'[Len(feedbackCalls')] =
                       [conversation_id |-> messages[i].conversationId,
                        rating |-> "down",
                        comment |-> IF feedbackComment = "" THEN Null ELSE feedbackComment,
                        petition_text |-> messages[i].content]
        /\ \A j \in 1..Len(feedbackCalls) :
            (feedbackCalls[j].rating = "down" /\ FeedbackSettles(j, Ok([status |-> "recorded"])))
                => /\ feedbackMode' = Null
                   /\ feedbackComment' = ""
                   /\ \A i \in 1..Len(messages') : ~ShowsEditor(messages[i])' ]_vars

\* a down request with a typed comment is in flight, its editor still shown
C9_Witness ==
    /\ Len(feedbackCalls) = 1
    /\ feedbackCalls[1].rating = "down"
    /\ feedbackCalls[1].comment = "too vague"
    /\ feedbackCalls[1].conversation_id = feedbackMode
    /\ feedbackComment = "too vague"

\* C10: with the editor shown for turn A, a thumbs-down on another turn B
\* moves the editor to B and sends no feedback request.
C10_DownMovesEditor ==
    [][\A a, b \in 1..Len(messages) :
          (a # b /\ ShowsEditor(messages[a]) /\ ClickThumb("down", b)) =>
              /\ feedbackMode' = messages[b].conversationId
              /\ ~ShowsEditor(messages[a])'
              /\ feedbackCalls' = feedbackCalls]_vars

\* the feedback replies that are failures: the fetch rejects, or the status
\* is not 2xx (the proxy's 502 among them)
FeedbackFailures == {NetworkError, HttpError, BadGateway}

\* C11: in every reachable state at most one turn of the thread has its
\* comment editor shown, also when assistant turns share a conversation id.
C11_OneEditorShown ==
    Cardinality({i \in 1..Len(messages) : ShowsEditor(messages[i])}) <= 1

\* C12: a thumbs-up sends one feedback request at once, opens no editor, and
\* the request carries a null comment.
C12_UpSendsNullComment ==
    [][\A i \in 1..Len(messages) :
          ClickThumb("up", i) =>
              /\ Len(feedbackCalls') = Len(feedbackCalls) + 1
              /\ feedbackMode' = feedbackMode
              /\ feedbackCalls'[Len(feedbackCalls')].rating = "up"
              /\ feedbackCalls'[Len(feedbackCalls')].comment = Null]_vars

\* C13: when a feedback request fails, by a rejected fetch or a non-2xx
\* status, the editor and the comment buffer stay as they were, no success
\* notice is shown, no timer is started and no request is sent again.
C13_FailureLeavesEditor ==
    [][\A j \in 1..Len(feedbackCalls), reply \in FeedbackFailures :
          FeedbackSettles(j, reply) =>
              /\ UNCHANGED <<feedbackMode, feedbackComment, showFeedbackSuccess, timeouts>>
              /\ feedbackCalls' = RemoveAt(feedbackCalls, j)]_vars

\* C14: a fulfilled feedback request shows the success notice; a visible
\* notice always has a timer pending that will hide it, the notice only
\* becomes visible by a request settling, and every visible notice is
\* hidden again by an expiring timer.
C14_NoticeExpires ==
    /\ [](showFeedbackSuccess => timeouts > 0)
    /\ [][ /\ \A j \in 1..Len(feedbackCalls) :
                FeedbackSettles(j, Ok([status |-> "recorded"])) => showFeedbackSuccess'
           /\ (~showFeedbackSuccess /\ showFeedbackSuccess')
                => Len(feedbackCalls') < Len(feedbackCalls)
           /\ (showFeedbackSuccess /\ ~showFeedbackSuccess')
                => timeouts' = timeouts - 1 ]_vars
    /\ (showFeedbackSuccess ~> ~showFeedbackSuccess)

\* the notice is visible, its timer pending, the editor closed
C14_Witness ==
    /\ showFeedbackSuccess
    /\ timeouts = 1
    /\ feedbackCalls = <<>>
    /\ feedbackMode = Null

----------------------------------------------------------------------------
(* Properties of the draft lifecycle of the structured variant *)

\* the requests of the structured variant that are outstanding
Outstanding == Len(generateCalls) + Len(chatCalls) + Len(finalizeCalls)

\* C15: while the facts are empty or whitespace-only no step issues a
\* generation request; the thread grows, the busy flag is raised and the
\* held draft changes only through the chat and finalize actions, through
\* requests sent earlier being settled (a chat request whose settling
\* unmounts the component included) and through the startup health check;
\* and the generate handler run in such a state changes nothing.
C15_BlankFactsIsNoOp ==
    [][Trim(caseData.facts) = <<>> =>
          /\ Len(generateCalls') <= Len(generateCalls)
          /\ (appMessages' # appMessages =>
                  \/ Outstanding' < Outstanding
                  \/ Len(chatCalls') > Len(chatCalls)
                  \/ healthCalls' < healthCalls)
          /\ (appLoading' /\ ~appLoading =>
                  Len(chatCalls') > Len(chatCalls) \/ Len(finalizeCalls') > Len(finalizeCalls))
          /\ (currentDraft' # currentDraft =>
                  \/ Len(generateCalls') < Len(generateCalls)
                  \/ Len(chatCalls') < Len(chatCalls) /\ variant' = "none")
          /\ (ClickGenerate \/ HandleGeneratePetition => UNCHANGED appVars)]_vars

C15_Witness ==
    /\ variant = "structured"
    /\ caseData.facts = <<32, 10>>
    /\ ShowsDraftPreview
    /\ ~appLoading
    /\ Outstanding = 0

\* C16: a generation request that fails (rejected fetch, non-2xx status, or
\* a 2xx reply whose body is not the JSON object of a draft) leaves the held
\* draft, or the absence of one, and its visibility as they were and appends
\* one error turn; one that succeeds stores exactly what the backend returned
\* as the draft and shows it; either way the busy flag is cleared and the
\* call is over.
C16_GenerateOutcome ==
    [][\A i \in 1..Len(generateCalls), reply \in GenerateReplies :
          GenerateSettles(i, reply) =>
              /\ ~appLoading'
              /\ generateCalls' = RemoveAt(generateCalls, i)
              /\ Len(appMessages') = Len(appMessages) + 1
              /\ reply \in {NetworkError, HttpError, BadJson} =>
                    /\ currentDraft' = currentDraft
                    /\ showDraft' = showDraft
                    /\ appMessages'[Len(appMessages')].type = "error"
              /\ reply.kind = "ok" =>
                    /\ currentDraft' = reply.data
                    /\ showDraft'
                    /\ appMessages'[Len(appMessages')].type = "system"]_vars

\* C17: at most one generation request is in flight, and while a generate,
\* chat or finalize request is outstanding no generate or chat request is
\* sent and no turn is appended except by a request being settled or by the
\* startup health check.
C17_SingleFlight ==
    /\ [](Len(generateCalls) <= 1)
    /\ [][Outstanding > 0 =>
             /\ Len(generateCalls') <= Len(generateCalls)
             /\ Len(chatCalls') <= Len(chatCalls)
             /\ (appMessages' # appMessages =>
                     Outstanding' < Outstanding \/ healthCalls' < healthCalls)
             /\ ~ClickGenerate
             /\ (HandleSendMessage => UNCHANGED appVars)]_vars

C17_Witness ==
    /\ Len(generateCalls) = 1
    /\ appLoading
    /\ Trim(appInput) # <<>>
    /\ ShowsDraftPreview

\* C18: a finalize action whose approver name or bar id is empty or was
\* cancelled, or with no draft held, changes nothing: no request, busy flag
\* and thread as they were, the draft still held and not finalized by it;
\* every finalize request in flight carries a name and an id.
C18_FinalizeNeedsApprover ==
    /\ [](\A i \in 1..Len(finalizeCalls) :
              /\ ~Falsy(finalizeCalls[i].request.approver_name)
              /\ ~Falsy(finalizeCalls[i].request.approver_id))
    /\ [][\A name \in ApproverNames, id \in ApproverIds :
             (Falsy(name) \/ Falsy(id) \/ currentDraft = NullObject)
                 /\ HandleFinalize(name, id) => UNCHANGED appVars]_vars

C18_Witness ==
    /\ ShowsDraftPreview
    /\ ~appLoading
    /\ Outstanding = 0
    /\ finalized = {}
    /\ Len(appMessages) = 2

\* C19: once a finalize request for a draft has succeeded, no finalize
\* request is in flight for that draft again.
C19_FinalizedIsFinal ==
    \A i \in 1..Len(finalizeCalls) : finalizeCalls[i].request.draft_id \notin finalized

\* C20: the validation panel of a shown draft is the pass tier exactly for
\* scores of at least 0.90, the warn tier exactly for scores from 0.75 up to
\* but excluding 0.90, and the fail tier exactly for scores below 0.75.
C20_TierPartition ==
    ShowsDraftPreview =>
        LET score == currentDraft.validation.overall_score
        IN  /\ ValidationPanelTier \in {"pass", "warn", "fail"}
            /\ ValidationPanelTier = "pass" <=> score >= 90
            /\ ValidationPanelTier = "warn" <=> (75 <= score /\ score < 90)
            /\ ValidationPanelTier = "fail" <=> score < 75

C20_Witness ==
    /\ ShowsDraftPreview
    /\ currentDraft.validation.overall_score = 90
    /\ ValidationPanelTier = "pass"

----------------------------------------------------------------------------
(* Properties of the startup calls of the structured variant *)

\* role of a turn of Home, type of a turn of PetitionChatbot
TurnKind(turn) == IF "role" \in DOMAIN turn THEN turn.role ELSE turn.type

\* two turns are the same turn: same kind, same fields, same values
SameTurn(a, b) ==
    /\ TurnKind(a) = TurnKind(b)
    /\ DOMAIN a = DOMAIN b
    /\ a = b

\* the thread before the step is a prefix of the thread after it
IsPrefix(before, after) ==
    /\ Len(before) <= Len(after)
    /\ \A k \in 1..Len(before) : SameTurn(after[k], before[k])

\* C21: the health check is started once, by the mount effect, and never
\* again; the step that resolves it appends exactly one turn (system when
\* the result is healthy, warning on another result, error when the fetch is
\* rejected) and leaves the busy flag alone; while it is pending a chat
\* submit with a non-blank message and a generate action with non-blank
\* facts are accepted whenever no other request keeps the client busy.
C21_HealthCheckOnce ==
    /\ [](healthCalls \in {0, 1})
    /\ [](healthCalls > 0 /\ ~appLoading /\ Trim(caseData.facts) # <<>>
              => ENABLED ClickGenerate)
    /\ [][ /\ healthCalls' <= healthCalls
           /\ \A reply \in HealthReplies :
                 CheckSystemHealthSettles(reply) =>
                     /\ Len(appMessages') = Len(appMessages) + 1
                     /\ IsPrefix(appMessages, appMessages')
                     /\ appLoading' = appLoading
                     /\ reply = NetworkError =>
                            appMessages'[Len(appMessages')].type = "error"
                     /\ reply.kind \in {"ok", "http_error"} =>
                            appMessages'[Len(appMessages')].type =
                                IF Get(reply.data, "status") = "healthy"
                                THEN "system"
                                ELSE "warning"
           /\ (healthCalls > 0 /\ ~appLoading /\ Trim(appInput) # <<>> /\ HandleSendMessage)
                 => Len(chatCalls') = Len(chatCalls) + 1 ]_vars

\* a chat request sent while the health check was pending, which has since
\* resolved with a warning
C21_Witness ==
    /\ healthCalls = 0
    /\ Len(appMessages) = 2
    /\ appMessages[1].type = "user"
    /\ appMessages[2].type = "warning"
    /\ Len(chatCalls) = 1
    /\ appLoading

\* how a template fetch fails: rejected fetch, non-2xx status, or a body
\* that is not JSON
TemplateFailures == {NetworkError, HttpError, BadJson}

\* C22: the step that resolves a failed template fetch leaves the catalog
\* empty and the thread, the busy flag and the draft as they were; and once
\* the fetch is over with an empty catalog, the Generate button is enabled
\* whenever the facts are non-blank and the client is not busy.
C22_TemplateFailureIsSilent ==
    /\ [](templateCalls = 0 /\ templates = <<>> /\ ~appLoading
              /\ Trim(caseData.facts) # <<>> => ENABLED ClickGenerate)
    /\ [][\A reply \in TemplateFailures :
             LoadTemplatesSettles(reply) =>
                 /\ templates' = <<>>
                 /\ UNCHANGED <<appMessages, appLoading, currentDraft, showDraft>>]_vars

\* a generation request in flight after the template fetch ended with an
\* empty catalog
C22_Witness ==
    /\ templateCalls = 0
    /\ templates = <<>>
    /\ Len(generateCalls) = 1
    /\ Len(appMessages) = 1

----------------------------------------------------------------------------
(* Properties of the thread, in both variants *)

\* C23: every step of either component (an action, or the resolution of a
\* chat, generate, finalize, export, feedback, health-check or template
\* request) leaves the thread it had as a prefix of the thread it has after:
\* turns are only ever appended.
C23_ThreadAppendOnly ==
    [][IsPrefix(messages, messages') /\ IsPrefix(appMessages, appMessages')]_vars

----------------------------------------------------------------------------
(* Properties of the chat session of the structured variant *)

\* C24: a chat request in flight carries the session id the client holds
\* (none before the first successful exchange); for as long as the
\* component is mounted, the id is written only by the step that resolves a
\* chat request successfully while none is held, which takes it from the
\* response; once held it never changes, and a failed exchange leaves it as
\* it was.  No step gives the cell another id: the one step that unmounts
\* the component ends the session with its cells.
C24_SessionIdSetOnce ==
    /\ [](\A i \in 1..Len(chatCalls) : chatCalls[i].request.session_id = sessionId)
    /\ [][ /\ sessionId' \notin {sessionId, Null} =>
                 /\ sessionId = Null
                 /\ Len(chatCalls') < Len(chatCalls)
           /\ variant' = "structured" =>
                 /\ sessionId # Null => sessionId' = sessionId
                 /\ \A i \in 1..Len(chatCalls), reply \in ChatReplies :
                       ChatSettles(i, reply) =>
                           sessionId' = IF reply.kind = "ok" /\ sessionId = Null
                                        THEN reply.data.session_id
                                        ELSE sessionId ]_vars

\* the second request of a session, carrying the id the first response gave
C24_Witness ==
    /\ sessionId = "s1"
    /\ Len(chatCalls) = 1
    /\ chatCalls[1].request.session_id = "s1"
    /\ Len(appMessages) = 3
    /\ appMessages[2].type = "assistant"

----------------------------------------------------------------------------
(* Properties of input collection, in both variants *)

\* C25: while the busy flag is set the message box can still be edited.
C25_InputEditableWhileBusy ==
    /\ (variant = "chat" /\ loading) =>
           \A text \in Texts : ENABLED InHome(ChangeInput(text))
    /\ (variant = "structured" /\ appLoading) =>
           \A text \in InputTexts : ENABLED InApp(AppRoom /\ ChangeAppInput(text))

----------------------------------------------------------------------------
(* Properties of a chat exchange of the structured variant *)

\* the turns appended since the chat call was issued, as of after the step
TurnsSince(call) == Len(appMessages') - Len(call.scope.messages)

\* C26: when a chat request resolves, the thread holds exactly two more
\* turns than before the submission, the user turn and directly after it
\* the assistant or error turn of the exchange.
C26_ExactlyTwoTurns ==
    [][\A i \in 1..Len(chatCalls), reply \in ChatReplies :
          ChatSettles(i, reply) =>
              /\ TurnsSince(chatCalls[i]) = 2
              /\ appMessages'[Len(appMessages') - 1].type = "user"]_vars

----------------------------------------------------------------------------
(* Further properties of the feedback controller *)

\* C27: while the 3-second window of some successful submission is still
\* running (its timer is pending), the success notice is visible.
C27_NoticeLastsItsWindow ==
    timeouts > 0 => showFeedbackSuccess

\* C28: the step that resolves a feedback request leaves alone an editor
\* that is open for another conversation than the one the request was for,
\* and the comment typed into it.
C28_LateCompletionKeepsOtherEditor ==
    [][\A j \in 1..Len(feedbackCalls), reply \in FeedbackReplies :
          (/\ FeedbackSettles(j, reply)
           /\ feedbackMode # Null
           /\ feedbackMode # feedbackCalls[j].conversation_id)
              => /\ feedbackMode' = feedbackMode
                 /\ feedbackComment' = feedbackComment]_vars

\* C29: whenever no comment editor is open the comment buffer is empty; a
\* step that closes the editor empties the buffer, and the buffer is only
\* written with text while an editor is open.
C29_ClosedEditorEmptyBuffer ==
    /\ [](feedbackMode = Null => feedbackComment = "")
    /\ [][ /\ (feedbackMode # Null /\ feedbackMode' = Null) => feedbackComment' = ""
           /\ (feedbackComment' # feedbackComment /\ feedbackComment' # "")
                 => (feedbackMode # Null /\ feedbackMode' = feedbackMode) ]_vars

\* the editor closed by Cancel while a submission carrying the comment that
\* had been typed is still in flight
C29_Witness ==
    /\ feedbackMode = Null
    /\ feedbackComment = ""
    /\ Len(feedbackCalls) = 1
    /\ feedbackCalls[1].comment = "too vague"
    /\ ~showFeedbackSuccess
    /\ timeouts = 0

\* the turn can be rated: an assistant turn that carries a conversation id
Rateable(i) == ShowsFeedbackControls(messages[i])

\* C30: every feedback request in flight was sent for a turn that carries a
\* conversation id (its id and its text are those of such a turn), and an
\* open editor belongs to such a turn; so no user turn, error turn or reply
\* without an id is ever rated.
C30_OnlyRateableTurnsRated ==
    /\ \A j \in 1..Len(feedbackCalls) :
          /\ ~Falsy(feedbackCalls[j].conversation_id)
          /\ \E i \in 1..Len(messages) :
                /\ Rateable(i)
                /\ messages[i].conversationId = feedbackCalls[j].conversation_id
                /\ messages[i].content = feedbackCalls[j].petition_text
    /\ feedbackMode # Null =>
          \E i \in 1..Len(messages) :
              Rateable(i) /\ messages[i].conversationId = feedbackMode
    /\ \A i \in 1..Len(messages) : ~Rateable(i) => ~ShowsEditor(messages[i])

\* a thread holding an error turn, with a feedback request in flight for
\* the one turn that can be rated
C30_Witness ==
    /\ Len(messages) = 4
    /\ messages[4] = ErrorMessage
    /\ Rateable(2)
    /\ Len(feedbackCalls) = 1
    /\ feedbackCalls[1].conversation_id = messages[2].conversationId

----------------------------------------------------------------------------
(* Properties of the DOCX export of the structured variant *)

\* C31: whenever the draft preview is shown a click on Download sends an
\* export request, busy or not; a step that sends or resolves an export
\* request leaves the busy flag, the thread and the draft as they were; no
\* export request is sent while no draft is held; a successful export saves
\* a file named after the draft id of its request, a failed one saves none.
C31_ExportIndependent ==
    /\ [](ShowsDraftPreview =>
              ENABLED (ClickDownload /\ Len(downloadCalls') = Len(downloadCalls) + 1))
    /\ [][ /\ Len(downloadCalls') # Len(downloadCalls) =>
                 UNCHANGED <<appLoading, appMessages, currentDraft, showDraft>>
           /\ currentDraft = NullObject =>
                 /\ Len(downloadCalls') <= Len(downloadCalls)
                 /\ (HandleDownloadDocx => UNCHANGED appVars)
           /\ \A i \in 1..Len(downloadCalls), reply \in DownloadReplies :
                 DownloadSettles(i, reply) =>
                     savedFile' = IF reply.kind = "ok"
                                  THEN FileName(downloadCalls[i].request.draft_id)
                                  ELSE savedFile ]_vars

\* an export request sent for draft d1 still in flight after a generation
\* replaced d1 by d2
C31_Witness ==
    /\ Len(downloadCalls) = 1
    /\ downloadCalls[1].request.draft_id = "d1"
    /\ currentDraft = Draft("d2", 80)
    /\ ~appLoading

====
